---- MODULE Spec2Model ----
(***************************************************************************)
(* Model of the RVNS hospital-scheduling solver:                           *)
(*   src/instances/Hospital.py   (Loader: the instance and its queries)    *)
(*   src/solvers/constraints.py  (H1-H7, S1-S8)                            *)
(*   src/solvers/RVNS_solver.py  (builder, operators, shake, VND, solve)   *)
(*                                                                         *)
(* Python lists are modelled as sequences (1-based; an index i of the      *)
(* source is i+1 here), dicts as functions or records, random.choice and   *)
(* random.shuffle as a choice over every outcome.                          *)
(***************************************************************************)
EXTENDS Integers, Sequences, FiniteSets, TLC

(***************************************************************************)
(* The instance (the JSON object Loader reads).                            *)
(***************************************************************************)

\* Planning horizon of the instance.
days == 2

shift_types == <<"early", "late">>

age_groups == <<"adult", "elderly">>

weights ==
    [room_mixed_age |-> 1, room_nurse_skill |-> 1, continuity_of_care |-> 1,
     nurse_eccessive_workload |-> 2, open_operating_theater |-> 1,
     surgeon_transfer |-> 1, patient_delay |-> 1, unscheduled_optional |-> 10]

occupants ==
    << [id |-> "o0", gender |-> "B", age_group |-> "elderly",
        length_of_stay |-> 2, workload_produced |-> <<1, 1, 1, 1>>,
        skill_level_required |-> <<0, 0, 0, 0>>, room_id |-> "r1"] >>

\* p1 has its release day after its due day, and on the second day of its
\* stay requires skill 2 on the first shift only; p3 is incompatible with
\* every room; p2, being optional, has no surgery_due_day.
patients ==
    << [id |-> "p0", mandatory |-> TRUE, gender |-> "A", age_group |-> "adult",
        length_of_stay |-> 2, surgery_release_day |-> 0, surgery_due_day |-> 1,
        surgery_duration |-> 60, surgeon_id |-> "s0",
        incompatible_room_ids |-> <<>>,
        workload_produced |-> <<2, 2, 2, 2>>,
        skill_level_required |-> <<1, 1, 1, 1>>],
       [id |-> "p1", mandatory |-> TRUE, gender |-> "A", age_group |-> "adult",
        length_of_stay |-> 2, surgery_release_day |-> 2, surgery_due_day |-> 0,
        surgery_duration |-> 30, surgeon_id |-> "s0",
        incompatible_room_ids |-> <<>>,
        workload_produced |-> <<1, 1, 1, 1>>,
        skill_level_required |-> <<0, 0, 2, 0>>],
       [id |-> "p2", mandatory |-> FALSE, gender |-> "B", age_group |-> "elderly",
        length_of_stay |-> 1, surgery_release_day |-> 0,
        surgery_duration |-> 30, surgeon_id |-> "s0",
        incompatible_room_ids |-> <<>>,
        workload_produced |-> <<1, 1>>,
        skill_level_required |-> <<2, 2>>],
       [id |-> "p3", mandatory |-> TRUE, gender |-> "B", age_group |-> "adult",
        length_of_stay |-> 1, surgery_release_day |-> 0, surgery_due_day |-> 1,
        surgery_duration |-> 30, surgeon_id |-> "s0",
        incompatible_room_ids |-> <<"r0", "r1">>,
        workload_produced |-> <<1, 1>>,
        skill_level_required |-> <<0, 0>>] >>

\* max_surgery_time and availability are lists indexed by day (0-based).
surgeons ==
    << [id |-> "s0", max_surgery_time |-> [d \in 0..(days - 1) |-> 90]] >>

operating_theaters ==
    << [id |-> "t0", availability |-> [d \in 0..(days - 1) |-> 90]],
       [id |-> "t1", availability |-> [d \in 0..(days - 1) |-> 30]] >>

rooms == << [id |-> "r0", capacity |-> 2], [id |-> "r1", capacity |-> 1] >>

\* n0 is rostered on every (day, shift); n1 only on (0, "early").
nurses ==
    << [id |-> "n0", skill_level |-> 1,
        working_shifts |->
            [i \in 1..(days * Len(shift_types)) |->
                [day |-> (i - 1) \div Len(shift_types),
                 shift |-> shift_types[((i - 1) % Len(shift_types)) + 1],
                 max_load |-> 2]]],
       [id |-> "n1", skill_level |-> 2,
        working_shifts |-> << [day |-> 0, shift |-> "early", max_load |-> 5] >>] >>

(***************************************************************************)
(* Python helpers.                                                         *)
(***************************************************************************)

\* Python's None.
None == [None |-> TRUE]

\* dict.get(key, default)
Get(d, key, default) == IF key \in DOMAIN d THEN d[key] ELSE default

\* The elements of a list.
Range(s) == {s[i] : i \in DOMAIN s}

\* {x['id']: x for x in lst}
IdDict(lst) ==
    [id \in {lst[i].id : i \in DOMAIN lst} |->
        lst[CHOOSE i \in DOMAIN lst :
                /\ lst[i].id = id
                /\ \A j \in DOMAIN lst : lst[j].id = id => j <= i]]

RECURSIVE SumFn(_, _)
\* sum(f[x] for x in S)
SumFn(f, S) ==
    IF S = {} THEN 0
    ELSE LET x == CHOOSE y \in S : TRUE
         IN  f[x] + SumFn(f, S \ {x})

RECURSIVE Flatten(_)
\* The concatenation of a list of lists.
Flatten(ss) == IF ss = <<>> THEN <<>> ELSE Head(ss) \o Flatten(Tail(ss))

\* range(a, b) as a set.
PyRange(a, b) == {i \in a..(b - 1) : TRUE}

\* A dict as an object: `ref` is its identity and `val` its contents.
Obj(ref, val) == [ref |-> ref, val |-> val]

(***************************************************************************)
(* Loader (src/instances/Hospital.py).                                     *)
(***************************************************************************)

occupant_dict == IdDict(occupants)
room_dict == IdDict(rooms)
nurses_dict == IdDict(nurses)
surgeon_dict == IdDict(surgeons)
patient_dict == IdDict(patients)
operating_theaters_dict == IdDict(operating_theaters)

get_patient_by_id(patient_id) ==
    IF patient_id \in DOMAIN patient_dict THEN patient_dict[patient_id]
    ELSE IF patient_id \in DOMAIN occupant_dict THEN occupant_dict[patient_id]
    ELSE None

\* self.patients and self.occupants: the dicts that get_patient_by_id can
\* return.
instance_dicts == patients \o occupants

\* The dict that get_patient_by_id returns for an id the instance knows, as
\* an object: its reference is its position in instance_dicts.
patient_object(patient_id) ==
    Obj(CHOOSE i \in DOMAIN instance_dicts :
            instance_dicts[i] = get_patient_by_id(patient_id),
        get_patient_by_id(patient_id))

\* A faulty copy: the dict of the instance itself.
patient_uncopied(patient) == patient

\* patient.copy() (line 139): a new dict with the same items.  0 is the
\* reference of no dict of the instance.
patient_copy(patient) == Obj(0, patient.val)

\* Lines 139-140: patient_copy, with 'admission_day' set.
admitted_copy(patient, admission_day) ==
    [patient_copy(patient) EXCEPT
        !.val = ("admission_day" :> admission_day) @@ @]

\* The first element of the list ps with this id, or None.
first_with_id(ps, patient_id) ==
    IF \A i \in DOMAIN ps : ps[i].id # patient_id THEN None
    ELSE ps[CHOOSE i \in DOMAIN ps :
                /\ ps[i].id = patient_id
                /\ \A j \in DOMAIN ps : ps[j].id = patient_id => i <= j]

get_solution_patient_by_id(solution, patient_id) ==
    first_with_id(solution.patients, patient_id)

\* The inner loops of get_all_patients_in_rooms: the triples
\* [day, room_id, patient] of one stay, for its days inside the horizon.
stay(admission_day, room_id, patient) ==
    LET kept == SelectSeq([i \in 1..patient.length_of_stay |-> i - 1],
                          LAMBDA day_offset : admission_day + day_offset < days)
    IN  [i \in 1..Len(kept) |->
            [day |-> admission_day + kept[i], room_id |-> room_id,
             patient |-> patient]]

\* The generator's output as a list: first the placements in list order
\* (nothing for an id the instance does not know, else the stay of a copy
\* of the patient with 'admission_day' set), then the occupants.
get_all_patients_in_rooms(solution) ==
    Flatten([i \in 1..Len(solution.patients) |->
                IF get_patient_by_id(solution.patients[i].id) = None THEN <<>>
                ELSE stay(solution.patients[i].admission_day,
                          solution.patients[i].room,
                          admitted_copy(patient_object(solution.patients[i].id),
                                        solution.patients[i].admission_day).val)])
        \o Flatten([i \in 1..Len(occupants) |->
                       stay(0, occupants[i].room_id, occupants[i])])

\* The indices of the placements of ps for which line 140 writes to the dict
\* of the instance that has reference i.
writes_to(ps, i) ==
    {j \in DOMAIN ps :
        /\ get_patient_by_id(ps[j].id) # None
        /\ admitted_copy(patient_object(ps[j].id), ps[j].admission_day).ref = i}

\* The items, once the generator has run over the placements ps, of the
\* dict with reference i that held `val`: what the last write left.
dict_after(val, ps, i, writes) ==
    IF writes = {} THEN val
    ELSE ("admission_day"
            :> ps[CHOOSE j \in writes : \A w \in writes : w <= j].admission_day)
         @@ val

\* self.patients and self.occupants, which were h, once the constraint
\* functions have been run on the solution.  The generator of lines 123-155
\* holds the one statement of the evaluation that writes to a dict (line
\* 140); nothing writes to the solution.
hospital_after(h, solution) ==
    [patients |->
        [i \in DOMAIN h.patients |->
            dict_after(h.patients[i], solution.patients, i,
                       writes_to(solution.patients, i))],
     occupants |->
        [i \in DOMAIN h.occupants |->
            dict_after(h.occupants[i], solution.patients, Len(patients) + i,
                       writes_to(solution.patients, Len(patients) + i))]]

\* The (nurse index, assignment index, room index) of every room named in
\* the list ns, for the nurses the instance knows, in iteration order.
nurse_entries(ns) ==
    UNION {UNION {{<<n, a, r>> : r \in DOMAIN ns[n].assignments[a].rooms}
                    : a \in DOMAIN ns[n].assignments}
            : n \in {m \in DOMAIN ns : ns[m].id \in DOMAIN nurses_dict}}

entry_key(ns, e) ==
    <<ns[e[1]].assignments[e[2]].day, ns[e[1]].assignments[e[2]].shift,
      ns[e[1]].assignments[e[2]].rooms[e[3]]>>

\* e is visited no later than f.
entry_before(e, f) ==
    \/ e[1] < f[1]
    \/ e[1] = f[1] /\ e[2] < f[2]
    \/ e[1] = f[1] /\ e[2] = f[2] /\ e[3] <= f[3]

\* The nurse of the last entry written under `key`.
last_nurse(ns, entries, key) ==
    nurses_dict[ns[(CHOOSE e \in entries :
                        /\ entry_key(ns, e) = key
                        /\ \A f \in entries :
                                entry_key(ns, f) = key => entry_before(f, e))[1]].id]

\* (day, shift, room) -> nurse id or skill level; a later record overwrites
\* an earlier one on the same key.
get_nurse_assignments(solution, id_only) ==
    [key \in {entry_key(solution.nurses, e) : e \in nurse_entries(solution.nurses)} |->
        IF id_only
        THEN last_nurse(solution.nurses, nurse_entries(solution.nurses), key).id
        ELSE last_nurse(solution.nurses, nurse_entries(solution.nurses), key).skill_level]

\* The first working shift of the list ws on (day, shift_name), or None.
first_shift(ws, day, shift_name) ==
    IF \A i \in DOMAIN ws : ~(ws[i].day = day /\ ws[i].shift = shift_name) THEN None
    ELSE ws[CHOOSE i \in DOMAIN ws :
                /\ ws[i].day = day /\ ws[i].shift = shift_name
                /\ \A j \in DOMAIN ws :
                        ws[j].day = day /\ ws[j].shift = shift_name => i <= j]

get_nurse_max_load(nurse_id, day, shift_name) ==
    IF nurse_id \notin DOMAIN nurses_dict THEN 0
    ELSE Get(first_shift(nurses_dict[nurse_id].working_shifts, day, shift_name),
             "max_load", 0)

(***************************************************************************)
(* Constraints (src/solvers/constraints.py).                               *)
(***************************************************************************)

HARD_VIOLATION_PENALTY == 1000000

\* sum(f.values())
SumAll(f) == SumFn(f, DOMAIN f)

Max(S) == CHOOSE x \in S : \A y \in S : y <= x

Min(S) == CHOOSE x \in S : \A y \in S : x <= y

\* A faulty grouping: by room, whatever the day.
in_room_any_day(all, key) == {j \in DOMAIN all : all[j].room_id = key[2]}

\* The indices of the triples of `all` on key = (day, room_id).
in_room_day(all, key) ==
    {j \in DOMAIN all : <<all[j].day, all[j].room_id>> = key}

\* The keys (day, room_id) of the triples of `all`.
room_day_keys(all) == {<<all[i].day, all[i].room_id>> : i \in DOMAIN all}

\* The keys of room_daily_genders that hold more than one gender.
h1_violations(all) ==
    Cardinality({key \in room_day_keys(all) :
        Cardinality({all[j].patient.gender : j \in in_room_day(all, key)}) > 1})

h1_no_gender_mix(solution) ==
    h1_violations(get_all_patients_in_rooms(solution)) * HARD_VIOLATION_PENALTY

\* The placements of the list ps whose id the instance knows, by index:
\* p_sol with the patient that get_patient_by_id gives.
known_placements(ps) ==
    [i \in {j \in DOMAIN ps : get_patient_by_id(ps[j].id) # None} |->
        [p_sol |-> ps[i], patient |-> get_patient_by_id(ps[i].id)]]

h2_violations(known) ==
    Cardinality({i \in DOMAIN known :
        /\ "incompatible_room_ids" \in DOMAIN known[i].patient
        /\ known[i].p_sol.room \in Range(known[i].patient.incompatible_room_ids)})

h2_compatible_rooms(solution) ==
    h2_violations(known_placements(solution.patients)) * HARD_VIOLATION_PENALTY

\* hospital.room_dict[r_id] raises KeyError for a room id that is not in the
\* instance (line 53).
h7_room_capacity_KeyError(solution) ==
    \E key \in room_day_keys(get_all_patients_in_rooms(solution)) :
        key[2] \notin DOMAIN room_dict

\* A faulty H7: a room filled to its capacity is counted too.
h7_violations_when_full(all) ==
    Cardinality({key \in room_day_keys(all) :
        Cardinality(in_room_day(all, key)) >= room_dict[key[2]].capacity})

\* The keys of room_occupancy whose count is above the room's capacity.
h7_violations(all) ==
    Cardinality({key \in room_day_keys(all) :
        Cardinality(in_room_day(all, key)) > room_dict[key[2]].capacity})

\* The value returned when no KeyError is raised.
h7_room_capacity(solution) ==
    h7_violations(get_all_patients_in_rooms(solution)) * HARD_VIOLATION_PENALTY

age_map ==
    [age \in Range(age_groups) |->
        (CHOOSE i \in DOMAIN age_groups : age_groups[i] = age) - 1]

\* room_daily_ages[key], as a set.
ages_in(all, key) ==
    {age_map[all[j].patient.age_group] : j \in in_room_day(all, key)}

\* max(ages) - min(ages) over the lists of more than one age.
s1_cost(all) ==
    SumAll([key \in room_day_keys(all) |->
               IF Cardinality(in_room_day(all, key)) > 1
               THEN Max(ages_in(all, key)) - Min(ages_in(all, key))
               ELSE 0])

s1_mixed_age_penalty(solution, weight) ==
    s1_cost(get_all_patients_in_rooms(solution)) * weight

\* The index into the patient's per-shift list on a day of the stay: three
\* shifts a day (lines 84-85 and 144-145).
shift_index(t, shift_idx) ==
    (t.day - Get(t.patient, "admission_day", 0)) * 3 + shift_idx

\* Lines 86-90 for the triple t and the shift: what is added to cost.
s2_shortfall(nurse_assignments, t, shift_idx, req_idx) ==
    IF /\ 0 <= req_idx
       /\ req_idx < Len(t.patient.skill_level_required)
       /\ <<t.day, shift_types[shift_idx + 1], t.room_id>> \in DOMAIN nurse_assignments
       /\ nurse_assignments[<<t.day, shift_types[shift_idx + 1], t.room_id>>]
            < t.patient.skill_level_required[req_idx + 1]
    THEN t.patient.skill_level_required[req_idx + 1]
            - nurse_assignments[<<t.day, shift_types[shift_idx + 1], t.room_id>>]
    ELSE 0

s2_cost(nurse_assignments, all) ==
    SumAll([s \in (DOMAIN all) \X (0..(Len(shift_types) - 1)) |->
               s2_shortfall(nurse_assignments, all[s[1]], s[2],
                            shift_index(all[s[1]], s[2]))])

s2_minimum_skill_level(solution, weight) ==
    s2_cost(get_nurse_assignments(solution, FALSE),
            get_all_patients_in_rooms(solution)) * weight

\* Lines 118-126: the number of distinct nurses on the stay.
distinct_nurses(nurse_assignments, patient, admission_day, room_id) ==
    Cardinality({nurse_assignments[key] :
        key \in {<<admission_day + day_offset, shift_types[s], room_id>> :
                    day_offset \in PyRange(0, patient.length_of_stay),
                    s \in DOMAIN shift_types} \cap DOMAIN nurse_assignments})

\* Lines 102-126 for one id: what is added to cost.
s3_nurses(nurse_assignments, patient, p_sol) ==
    IF patient = None THEN 0
    ELSE IF p_sol # None
    THEN distinct_nurses(nurse_assignments, patient, p_sol.admission_day, p_sol.room)
    ELSE IF "room_id" \in DOMAIN patient
    THEN distinct_nurses(nurse_assignments, patient, 0, patient.room_id)
    ELSE 0

s3_cost(nurse_assignments, ps) ==
    SumAll([p_id \in {ps[i].id : i \in DOMAIN ps}
                        \cup {occupants[i].id : i \in DOMAIN occupants} |->
               s3_nurses(nurse_assignments, get_patient_by_id(p_id),
                         first_with_id(ps, p_id))])

s3_continuity_of_care(solution, weight) ==
    s3_cost(get_nurse_assignments(solution, TRUE), solution.patients) * weight

\* Lines 139-149: the (triple index, shift index) pairs that add workload.
s4_counted(nurse_assignments, all) ==
    {s \in (DOMAIN all) \X (0..(Len(shift_types) - 1)) :
        /\ <<all[s[1]].day, shift_types[s[2] + 1], all[s[1]].room_id>>
                \in DOMAIN nurse_assignments
        /\ 0 <= shift_index(all[s[1]], s[2])
        /\ shift_index(all[s[1]], s[2]) < Len(all[s[1]].patient.workload_produced)}

\* n_key = (nurse_id, day, shift_name) of a counted pair.
s4_n_key(nurse_assignments, all, s) ==
    <<nurse_assignments[<<all[s[1]].day, shift_types[s[2] + 1], all[s[1]].room_id>>],
      all[s[1]].day, shift_types[s[2] + 1]>>

nurse_workload(nurse_assignments, all, counted) ==
    [n_key \in {s4_n_key(nurse_assignments, all, s) : s \in counted} |->
        SumAll([s \in counted |->
                   IF s4_n_key(nurse_assignments, all, s) = n_key
                   THEN all[s[1]].patient.workload_produced[
                            shift_index(all[s[1]], s[2]) + 1]
                   ELSE 0])]

\* Lines 150-153.
s4_cost(workload) ==
    SumAll([n_key \in DOMAIN workload |->
               IF workload[n_key] > get_nurse_max_load(n_key[1], n_key[2], n_key[3])
               THEN workload[n_key]
                        - get_nurse_max_load(n_key[1], n_key[2], n_key[3])
               ELSE 0])

s4_workload(nurse_assignments, all) ==
    nurse_workload(nurse_assignments, all, s4_counted(nurse_assignments, all))

s4_maximum_workload(solution, weight) ==
    s4_cost(s4_workload(get_nurse_assignments(solution, TRUE),
                        get_all_patients_in_rooms(solution))) * weight

\* sum of surgery_duration over the known placements with keyOf = key
load_by_key(known, keyOf(_), key) ==
    SumAll([i \in DOMAIN known |->
               IF keyOf(known[i]) = key THEN known[i].patient.surgery_duration
               ELSE 0])

surgeon_key(kp) == <<kp.p_sol.admission_day, kp.patient.surgeon_id>>

surgeon_load(known) ==
    [key \in {surgeon_key(known[i]) : i \in DOMAIN known} |->
        load_by_key(known, surgeon_key, key)]

h3_violations(load) ==
    Cardinality({key \in DOMAIN load :
        /\ key[2] \in DOMAIN surgeon_dict
        /\ load[key] > surgeon_dict[key[2]].max_surgery_time[key[1]]})

h3_surgeon_overtime(solution) ==
    h3_violations(surgeon_load(known_placements(solution.patients)))
        * HARD_VIOLATION_PENALTY

ot_key(kp) == <<kp.p_sol.admission_day, kp.p_sol.operating_theater>>

ot_load(known) ==
    [key \in {ot_key(known[i]) : i \in DOMAIN known} |->
        load_by_key(known, ot_key, key)]

h4_violations(load) ==
    Cardinality({key \in DOMAIN load :
        /\ key[2] \in DOMAIN operating_theaters_dict
        /\ load[key] > operating_theaters_dict[key[2]].availability[key[1]]})

h4_ot_overtime(solution) ==
    h4_violations(ot_load(known_placements(solution.patients)))
        * HARD_VIOLATION_PENALTY

s5_open_ots(solution, weight) ==
    Cardinality({<<solution.patients[i].admission_day,
                   solution.patients[i].operating_theater>> :
                    i \in DOMAIN solution.patients}) * weight

surgeon_ots(known) ==
    [key \in {surgeon_key(known[i]) : i \in DOMAIN known} |->
        {known[i].p_sol.operating_theater :
            i \in {j \in DOMAIN known : surgeon_key(known[j]) = key}}]

s6_cost(ots_of) ==
    SumAll([key \in DOMAIN ots_of |->
               IF Cardinality(ots_of[key]) > 1 THEN Cardinality(ots_of[key]) - 1
               ELSE 0])

s6_surgeon_transfer(solution, weight) ==
    s6_cost(surgeon_ots(known_placements(solution.patients))) * weight

admitted_ids(ps) == {ps[i].id : i \in DOMAIN ps}

\* A faulty H5: it counts every patient without a placement, the optional
\* ones too.
h5_counts_optionals_too(solution) ==
    Cardinality({p_id \in DOMAIN patient_dict :
                    p_id \notin admitted_ids(solution.patients)})
        * HARD_VIOLATION_PENALTY

h5_mandatory_unscheduled(solution) ==
    Cardinality({p_id \in DOMAIN patient_dict :
                    /\ patient_dict[p_id].mandatory
                    /\ p_id \notin admitted_ids(solution.patients)})
        * HARD_VIOLATION_PENALTY

\* A faulty H6: one violation at most for a placement.
h6_violations_one_each(known) ==
    Cardinality({i \in DOMAIN known :
        \/ known[i].p_sol.admission_day < known[i].patient.surgery_release_day
        \/ /\ Get(known[i].patient, "mandatory", FALSE)
           /\ known[i].p_sol.admission_day > known[i].patient.surgery_due_day})

h6_violations(known) ==
    Cardinality({i \in DOMAIN known :
        known[i].p_sol.admission_day < known[i].patient.surgery_release_day})
    + Cardinality({i \in DOMAIN known :
        /\ Get(known[i].patient, "mandatory", FALSE)
        /\ known[i].p_sol.admission_day > known[i].patient.surgery_due_day})

\* A faulty H6: the number of violations, not multiplied by the penalty.
h6_unscaled(solution) == h6_violations(known_placements(solution.patients))

h6_admission_day(solution) ==
    h6_violations(known_placements(solution.patients)) * HARD_VIOLATION_PENALTY

\* A faulty S7: the delay is added whatever its sign.
s7_cost_signed(known) ==
    SumAll([i \in DOMAIN known |->
               known[i].p_sol.admission_day - known[i].patient.surgery_release_day])

s7_cost(known) ==
    SumAll([i \in DOMAIN known |->
               IF known[i].p_sol.admission_day > known[i].patient.surgery_release_day
               THEN known[i].p_sol.admission_day
                        - known[i].patient.surgery_release_day
               ELSE 0])

s7_admission_delay(solution, weight) ==
    s7_cost(known_placements(solution.patients)) * weight

\* A faulty S8: it counts every patient without a placement, the mandatory
\* ones too.
s8_counts_mandatory_too(solution, weight) ==
    Cardinality({p_id \in DOMAIN patient_dict :
                    p_id \notin admitted_ids(solution.patients)}) * weight

s8_unscheduled_optional(solution, weight) ==
    Cardinality({p_id \in DOMAIN patient_dict :
                    /\ ~Get(patient_dict[p_id], "mandatory", FALSE)
                    /\ p_id \notin admitted_ids(solution.patients)}) * weight

(***************************************************************************)
(* RVNS.evaluate_solution (src/solvers/RVNS_solver.py).                    *)
(***************************************************************************)

\* The breakdown `costs`.
evaluate_costs(solution) ==
    [H1 |-> h1_no_gender_mix(solution),
     H2 |-> h2_compatible_rooms(solution),
     H7 |-> h7_room_capacity(solution),
     S1 |-> s1_mixed_age_penalty(solution, weights.room_mixed_age),
     S2 |-> s2_minimum_skill_level(solution, weights.room_nurse_skill),
     S3 |-> s3_continuity_of_care(solution, weights.continuity_of_care),
     S4 |-> s4_maximum_workload(solution, weights.nurse_eccessive_workload),
     H3 |-> h3_surgeon_overtime(solution),
     H4 |-> h4_ot_overtime(solution),
     S5 |-> s5_open_ots(solution, weights.open_operating_theater),
     S6 |-> s6_surgeon_transfer(solution, weights.surgeon_transfer),
     H5 |-> h5_mandatory_unscheduled(solution),
     H6 |-> h6_admission_day(solution),
     S7 |-> s7_admission_delay(solution, weights.patient_delay),
     S8 |-> s8_unscheduled_optional(solution, weights.unscheduled_optional)]

\* total_cost, the first component of the returned pair.
evaluate_solution(solution) == SumAll(evaluate_costs(solution))

(***************************************************************************)
(* Objects.  A solution dict is an object: `ref` is its identity and `val` *)
(* its contents.  copy.deepcopy makes a new object with equal contents; a  *)
(* statement that mutates an object changes what every holder of that ref  *)
(* sees.  References only grow along a call chain, so a fresh ref differs  *)
(* from the ref of every live object.                                      *)
(***************************************************************************)

\* A faulty copy: the same object, not a clone.
copy_alias(obj) == obj

copy_deepcopy(obj) == [ref |-> obj.ref + 1, val |-> obj.val]

\* The contents of the caller's object `solution` once the callee has worked
\* on the object s_prime.
arg_after(solution, s_prime) ==
    IF s_prime.ref = solution.ref THEN s_prime.val ELSE solution.val

\* The outcome of a call f(solution) that worked on the object s_prime and
\* returned the object with reference ret_ref: `ret` is the returned object,
\* `arg` the contents of the caller's object after the call, `error` the
\* exception raised ("none": the call returned).
Outcome(solution, s_prime, ret_ref, error) ==
    [ret |-> IF ret_ref = s_prime.ref THEN s_prime
             ELSE Obj(solution.ref, arg_after(solution, s_prime)),
     arg |-> arg_after(solution, s_prime),
     error |-> error]

\* float('inf'): above every total cost of the instance.
Infinity == 2000000000

\* {}: solution.get('patients', []) and solution.get('nurses', []) are empty.
EmptySolution == [patients |-> <<>>, nurses |-> <<>>]

\* sorted(lst, key): stable.
Sorted(lst, key(_)) ==
    [r \in 1..Len(lst) |->
        lst[CHOOSE i \in DOMAIN lst :
                Cardinality({j \in DOMAIN lst :
                    \/ key(lst[j]) < key(lst[i])
                    \/ key(lst[j]) = key(lst[i]) /\ j < i}) + 1 = r]]

\* The elements of the set S as a list, in increasing rank.
InOrder(S, rank(_)) ==
    [r \in 1..Cardinality(S) |->
        CHOOSE x \in S : Cardinality({y \in S : rank(y) < rank(x)}) = r - 1]

(***************************************************************************)
(* RVNS._generate_initial_solution.                                        *)
(***************************************************************************)

\* A faulty test: H1 is left out.
placement_unchecked_h1(temp_solution) ==
    /\ h2_compatible_rooms(temp_solution) = 0
    /\ h7_room_capacity(temp_solution) = 0
    /\ h3_surgeon_overtime(temp_solution) = 0
    /\ h4_ot_overtime(temp_solution) = 0
    /\ h6_admission_day(temp_solution) = 0

\* The test of lines 212-217 (and of lines 376-381).
placement_is_valid(temp_solution) ==
    /\ h1_no_gender_mix(temp_solution) = 0
    /\ h2_compatible_rooms(temp_solution) = 0
    /\ h7_room_capacity(temp_solution) = 0
    /\ h3_surgeon_overtime(temp_solution) = 0
    /\ h4_ot_overtime(temp_solution) = 0
    /\ h6_admission_day(temp_solution) = 0

\* Lines 173-178: mandatory_patients + optional_patients.
patients_to_schedule ==
    Sorted(SelectSeq(patients, LAMBDA p : Get(p, "mandatory", FALSE)),
           LAMBDA p : Get(p, "surgery_due_day", Infinity))
    \o Sorted(SelectSeq(patients, LAMBDA p : ~Get(p, "mandatory", FALSE)),
              LAMBDA p : p.surgery_release_day)

\* Line 187.
due_day_of(patient) ==
    Get(patient, "surgery_due_day", days - patient.length_of_stay)

\* Lines 193-194: rooms_to_try x ots_to_try.
rooms_and_ots_to_try(patient) ==
    ({rooms[i].id : i \in DOMAIN rooms}
        \ Range(Get(patient, "incompatible_room_ids", <<>>)))
    \X {operating_theaters[i].id : i \in DOMAIN operating_theaters}

\* Lines 203-209 (and 370-373): the solution with one more placement.
with_placement(solution, patient, day, room_id, ot_id) ==
    [solution EXCEPT !.patients =
        Append(@, [id |-> patient.id, admission_day |-> day,
                   room |-> room_id, operating_theater |-> ot_id])]

\* For each day of days_range, the placements of `patient` on that day that
\* pass the test.
valid_by_day(solution, patient) ==
    [day \in patient.surgery_release_day..due_day_of(patient) |->
        {temp_solution \in
            {with_placement(solution, patient, day, c[1], c[2]) :
                c \in rooms_and_ots_to_try(patient)} :
            placement_is_valid(temp_solution)}]

\* The days are tried in ascending order, the rooms and theaters in a
\* shuffled order: the placement found is on the first day that has a valid
\* combination, and any valid combination of that day can be the one found.
place_first(st, patient, valid) ==
    LET good_days == {day \in DOMAIN valid : valid[day] # {}}
    IN  IF good_days # {}
        THEN {[st EXCEPT !.solution = temp_solution] :
                temp_solution \in valid[Min(good_days)]}
        ELSE IF patient.mandatory
        THEN {[st EXCEPT !.warnings = Append(@, patient.id)]}
        ELSE {st}

\* One pass of the loop of line 180 for `patient`, from the state `st`
\* ([solution, warnings]): every state the pass can end in.
place_patient(st, patient) ==
    IF patient.surgery_release_day > due_day_of(patient) THEN {st}
    ELSE place_first(st, patient, valid_by_day(st.solution, patient))

RECURSIVE place_patients(_, _, _)
\* The loop of line 180 over todo[i..].
place_patients(sts, todo, i) ==
    IF i > Len(todo) THEN sts
    ELSE place_patients(UNION {place_patient(st, todo[i]) : st \in sts},
                        todo, i + 1)

\* Line 239.
req_idx_of(t, shift_idx) ==
    (t.day - Get(t.patient, "admission_day", 0)) * Len(shift_types) + shift_idx

\* Lines 236-241: the (triple index, shift index) pairs that set a
\* requirement.
requirement_slots(all) ==
    {s \in (DOMAIN all) \X (0..(Len(shift_types) - 1)) :
        /\ 0 <= req_idx_of(all[s[1]], s[2])
        /\ req_idx_of(all[s[1]], s[2]) < Len(all[s[1]].patient.skill_level_required)}

slot_key(all, s) == <<all[s[1]].day, shift_types[s[2] + 1], all[s[1]].room_id>>

\* The position of a pair in the iteration.
slot_rank(s) == s[1] * Len(shift_types) + s[2]

\* The pairs that insert their key in room_shift_requirements.
first_slots(all, slots) ==
    {s \in slots : \A u \in slots :
        slot_key(all, u) = slot_key(all, s) => slot_rank(s) <= slot_rank(u)}

\* Lines 242-245: the value under the key of the pair `first`.
max_required_skill(all, slots, first) ==
    Max({-1} \cup
        {all[u[1]].patient.skill_level_required[req_idx_of(all[u[1]], u[2]) + 1] :
            u \in {v \in slots : slot_key(all, v) = slot_key(all, first)}})

requirement_items(all, slots, firsts) ==
    [r \in DOMAIN firsts |->
        [key |-> slot_key(all, firsts[r]),
         required_skill |-> max_required_skill(all, slots, firsts[r])]]

requirements_for(all) ==
    requirement_items(all, requirement_slots(all),
                      InOrder(first_slots(all, requirement_slots(all)), slot_rank))

\* room_shift_requirements as the list of its items, in insertion order.
room_shift_requirements(solution) ==
    requirements_for(get_all_patients_in_rooms(solution))

\* A faulty assignment: always a new record, never a merge.
assign_room_unmerged(assignments, day, shift_name, room_id) ==
    Append(assignments, [day |-> day, shift |-> shift_name, rooms |-> <<room_id>>])

\* Lines 262-275: add room_id to the nurse's first record for
\* (day, shift_name), or append a new record when the nurse has none.
assign_room(assignments, day, shift_name, room_id) ==
    IF \E a \in DOMAIN assignments :
            assignments[a].day = day /\ assignments[a].shift = shift_name
    THEN [a \in DOMAIN assignments |->
            IF /\ assignments[a].day = day /\ assignments[a].shift = shift_name
               /\ \A b \in 1..(a - 1) :
                    ~(assignments[b].day = day /\ assignments[b].shift = shift_name)
               /\ room_id \notin Range(assignments[a].rooms)
            THEN [assignments[a] EXCEPT !.rooms = Append(@, room_id)]
            ELSE assignments[a]]
    ELSE Append(assignments,
                [day |-> day, shift |-> shift_name, rooms |-> <<room_id>>])

\* Lines 249-253: the nurses rostered on (day, shift_name) with the skill.
available_nurses(day, shift_name, required_skill) ==
    {nurses[n].id : n \in {m \in DOMAIN nurses :
        /\ \E w \in DOMAIN nurses[m].working_shifts :
                /\ nurses[m].working_shifts[w].day = day
                /\ nurses[m].working_shifts[w].shift = shift_name
        /\ nurses[m].skill_level >= required_skill}}

\* Lines 259-260: nurse_assignments_by_id, as the list of its items
\* [id, assignments] in insertion order, with an entry for nurse_id.
with_nurse(by_id, nurse_id) ==
    IF \E n \in DOMAIN by_id : by_id[n].id = nurse_id THEN by_id
    ELSE Append(by_id, [id |-> nurse_id, assignments |-> <<>>])

\* Lines 262-275 on the entry of nurse_id.
assign_to(by_id, nurse_id, day, shift_name, room_id) ==
    [n \in DOMAIN by_id |->
        IF by_id[n].id = nurse_id
        THEN [by_id[n] EXCEPT
                !.assignments = assign_room(@, day, shift_name, room_id)]
        ELSE by_id[n]]

choose_nurse(by_id, item, available) ==
    IF available = {} THEN {by_id}
    ELSE {assign_to(with_nurse(by_id, nurse_id), nurse_id,
                    item.key[1], item.key[2], item.key[3]) : nurse_id \in available}

\* One pass of the loop of line 248: nurse_assignments_by_id after the pass.
assign_nurse(by_id, item) ==
    choose_nurse(by_id, item,
                 available_nurses(item.key[1], item.key[2], item.required_skill))

RECURSIVE assign_nurses(_, _, _)
assign_nurses(by_ids, items, i) ==
    IF i > Len(items) THEN by_ids
    ELSE assign_nurses(UNION {assign_nurse(b, items[i]) : b \in by_ids}, items, i + 1)

\* Every [solution, warnings] the builder can return and print.
generate_initial_solution ==
    UNION {
        {[st EXCEPT !.solution.nurses = by_id] :
            by_id \in assign_nurses({<<>>}, room_shift_requirements(st.solution), 1)}
        : st \in place_patients({[solution |-> EmptySolution, warnings |-> <<>>]},
                                patients_to_schedule, 1)}

(***************************************************************************)
(* The neighborhood operators.  Each takes the object `solution` and gives *)
(* the set of its possible Outcomes.  A shuffled list is tried in order    *)
(* and the first valid candidate is taken, so any valid candidate can be   *)
(* the one taken; when none is valid the clone is returned as it was.      *)
(***************************************************************************)

\* return s_prime, s_prime being as it was cloned.
unchanged(solution, s_prime) == {Outcome(solution, s_prime, s_prime.ref, "none")}

\* return s_prime with the first of the valid contents tried, or restored.
first_valid(solution, s_prime, valid) ==
    IF valid # {}
    THEN {Outcome(solution, [s_prime EXCEPT !.val = v], s_prime.ref, "none") :
            v \in valid}
    ELSE unchanged(solution, s_prime)

\* Lines 290-294.
available_rooms(p_sol, patient) ==
    {r \in DOMAIN room_dict :
        /\ r \notin Range(Get(patient, "incompatible_room_ids", <<>>))
        /\ r # p_sol.room}

\* The test of lines 304-306.
room_move_is_valid(s) ==
    /\ h1_no_gender_mix(s) = 0
    /\ h2_compatible_rooms(s) = 0
    /\ h7_room_capacity(s) = 0

\* Lines 300-301: the contents of s_prime with patient i in each new room.
room_moves(val, i) ==
    {[val EXCEPT !.patients[i].room = new_room] :
        new_room \in available_rooms(val.patients[i],
                                     get_patient_by_id(val.patients[i].id))}

neighborhood_change_patient_room(solution) ==
    LET s_prime == copy_deepcopy(solution)
    IN  IF s_prime.val.patients = <<>> THEN unchanged(solution, s_prime)
        ELSE UNION {first_valid(solution, s_prime,
                        {v \in room_moves(s_prime.val, i) : room_move_is_valid(v)})
                        : i \in DOMAIN s_prime.val.patients}

\* The test of lines 334-336.
day_move_is_valid(s) ==
    /\ h6_admission_day(s) = 0
    /\ h3_surgeon_overtime(s) = 0
    /\ h4_ot_overtime(s) = 0

\* A faulty window: it starts on the day after the release day.
day_window_after_release(patient) ==
    PyRange(patient.surgery_release_day + 1,
            Get(patient, "surgery_due_day", days - patient.length_of_stay) + 1)

\* Lines 323 and 326: range(release, due_day + 1).
day_window(patient) ==
    PyRange(patient.surgery_release_day,
            Get(patient, "surgery_due_day", days - patient.length_of_stay) + 1)

\* Lines 330-331: the contents of s_prime with patient i on each new day.
day_moves(val, i, window) ==
    {[val EXCEPT !.patients[i].admission_day = new_day] :
        new_day \in window \ {val.patients[i].admission_day}}

\* days_to_try.remove(original_day) raises ValueError when the current day
\* is not in the window.
change_day_of(solution, s_prime, i, window) ==
    IF s_prime.val.patients[i].admission_day \notin window
    THEN {Outcome(solution, s_prime, s_prime.ref, "ValueError")}
    ELSE first_valid(solution, s_prime,
                     {v \in day_moves(s_prime.val, i, window) : day_move_is_valid(v)})

neighborhood_change_patient_day(solution) ==
    LET s_prime == copy_deepcopy(solution)
    IN  IF s_prime.val.patients = <<>> THEN unchanged(solution, s_prime)
        ELSE UNION {change_day_of(solution, s_prime, i,
                        day_window(get_patient_by_id(s_prime.val.patients[i].id)))
                        : i \in DOMAIN s_prime.val.patients}

\* A faulty list: every optional patient, placed or not.
all_optionals(sol) ==
    {p_id \in DOMAIN patient_dict : ~patient_dict[p_id].mandatory}

\* Lines 346-350: the optional patients with no placement in `sol`.
unscheduled_optionals(sol) ==
    {p_id \in DOMAIN patient_dict :
        ~patient_dict[p_id].mandatory /\ p_id \notin admitted_ids(sol.patients)}

\* Lines 355-357: days_to_try x rooms_to_try x ots_to_try.
reschedule_candidates(patient) ==
    PyRange(patient.surgery_release_day, days - patient.length_of_stay)
        \X (DOMAIN room_dict) \X (DOMAIN operating_theaters_dict)

\* Lines 372-373: a deep copy of s_prime with the placement appended.
temp_solution_of(s_prime, patient, c) ==
    [copy_deepcopy(s_prime) EXCEPT
        !.val = with_placement(@, patient, c[1], c[2], c[3])]

\* A faulty append: the new placement takes the place of the list.
appended_alone(s_prime, temp, patient, c) ==
    [s_prime EXCEPT
        !.val = with_placement([@ EXCEPT !.patients = <<>>],
                               patient, c[1], c[2], c[3])]

\* Line 383: the placement is appended to s_prime, which holds what temp
\* holds when they are one object.
appended(s_prime, temp, patient, c) ==
    [s_prime EXCEPT
        !.val = with_placement(IF temp.ref = s_prime.ref THEN temp.val ELSE @,
                               patient, c[1], c[2], c[3])]

reschedule_first(solution, s_prime, patient, valid) ==
    IF valid # {}
    THEN {Outcome(solution,
                  appended(s_prime, temp_solution_of(s_prime, patient, c), patient, c),
                  s_prime.ref, "none") : c \in valid}
    ELSE unchanged(solution, s_prime)

reschedule_patient(solution, s_prime, patient) ==
    reschedule_first(solution, s_prime, patient,
        {c \in reschedule_candidates(patient) :
            placement_is_valid(temp_solution_of(s_prime, patient, c).val)})

neighborhood_reschedule_unscheduled(solution) ==
    LET s_prime == copy_deepcopy(solution)
    IN  IF unscheduled_optionals(s_prime.val) # {}
        THEN UNION {reschedule_patient(solution, s_prime, patient_dict[p_id]) :
                        p_id \in unscheduled_optionals(s_prime.val)}
        ELSE unchanged(solution, s_prime)

\* Lines 398-407: candidates_b for assignment x of nurse a, as
\* (nurse index, assignment index) pairs.
candidates_b(ns, a, x) ==
    {c \in UNION {{<<b, y>> : y \in DOMAIN ns[b].assignments} : b \in DOMAIN ns} :
        /\ ns[c[1]].id # ns[a].id
        /\ ns[c[1]].assignments[c[2]].day = ns[a].assignments[x].day
        /\ ns[c[1]].assignments[c[2]].shift = ns[a].assignments[x].shift
        /\ Range(ns[c[1]].assignments[c[2]].rooms)
                \cap Range(ns[a].assignments[x].rooms) = {}}

\* Lines 412-416.
swapped(s_prime, ns, a, x, c) ==
    [s_prime EXCEPT
        !.val.nurses[a].assignments[x].rooms = ns[c[1]].assignments[c[2]].rooms,
        !.val.nurses[c[1]].assignments[c[2]].rooms = ns[a].assignments[x].rooms]

\* Lines 420-424: a swap that leaves an H1 or H7 violation is not undone on
\* s_prime: `solution` is returned.
swap_outcome(solution, s_prime) ==
    IF /\ h1_no_gender_mix(s_prime.val) = 0
       /\ h7_room_capacity(s_prime.val) = 0
    THEN Outcome(solution, s_prime, s_prime.ref, "none")
    ELSE Outcome(solution, s_prime, solution.ref, "none")

swap_any(solution, s_prime, ns, a, x, candidates) ==
    IF candidates # {}
    THEN {swap_outcome(solution, swapped(s_prime, ns, a, x, c)) : c \in candidates}
    ELSE {Outcome(solution, s_prime, solution.ref, "none")}

\* random.choice of an empty list raises IndexError.
swap_rooms(solution, s_prime, ns) ==
    IF Len(ns) < 2 THEN unchanged(solution, s_prime)
    ELSE IF \A n \in DOMAIN ns : ns[n].assignments = <<>>
    THEN {Outcome(solution, s_prime, s_prime.ref, "IndexError")}
    ELSE UNION {UNION {swap_any(solution, s_prime, ns, a, x, candidates_b(ns, a, x))
                        : x \in DOMAIN ns[a].assignments}
                    : a \in DOMAIN ns}

neighborhood_change_nurse_assignment(solution) ==
    LET s_prime == copy_deepcopy(solution)
    IN  swap_rooms(solution, s_prime, s_prime.val.nurses)

\* The test of lines 443-444.
ot_move_is_valid(s) ==
    /\ h3_surgeon_overtime(s) = 0
    /\ h4_ot_overtime(s) = 0

\* Lines 433 and 439: the contents of s_prime with patient i in each new OT.
ot_moves(val, i) ==
    {[val EXCEPT !.patients[i].operating_theater = new_ot] :
        new_ot \in DOMAIN operating_theaters_dict \ {val.patients[i].operating_theater}}

neighborhood_change_patient_ot(solution) ==
    LET s_prime == copy_deepcopy(solution)
    IN  IF s_prime.val.patients = <<>> THEN unchanged(solution, s_prime)
        ELSE UNION {first_valid(solution, s_prime,
                        {v \in ot_moves(s_prime.val, i) : ot_move_is_valid(v)})
                        : i \in DOMAIN s_prime.val.patients}

\* self.neighborhoods, by name.
neighborhoods ==
    << "_neighborhood_change_patient_room",
       "_neighborhood_change_patient_day",
       "_neighborhood_reschedule_unscheduled",
       "_neighborhood_change_nurse_assignment",
       "_neighborhood_change_patient_ot" >>

k_max == Len(neighborhoods)

\* self.neighborhoods[i](solution), i being 0-based.
neighborhood_func(i, solution) ==
    CASE neighborhoods[i + 1] = "_neighborhood_change_patient_room" ->
            neighborhood_change_patient_room(solution)
      [] neighborhoods[i + 1] = "_neighborhood_change_patient_day" ->
            neighborhood_change_patient_day(solution)
      [] neighborhoods[i + 1] = "_neighborhood_reschedule_unscheduled" ->
            neighborhood_reschedule_unscheduled(solution)
      [] neighborhoods[i + 1] = "_neighborhood_change_nurse_assignment" ->
            neighborhood_change_nurse_assignment(solution)
      [] neighborhoods[i + 1] = "_neighborhood_change_patient_ot" ->
            neighborhood_change_patient_ot(solution)

(***************************************************************************)
(* RVNS._shake.                                                            *)
(***************************************************************************)

\* s_prime = neighborhood_func(s_prime) after the outcome o of the passes
\* before it; ref is the reference of the caller's object.
shake_step(o, ref, i) ==
    IF o.error # "none" THEN {o}
    ELSE {[ret |-> r.ret,
           arg |-> IF o.ret.ref = ref THEN r.arg
                   ELSE IF r.ret.ref = ref THEN r.ret.val
                   ELSE o.arg,
           error |-> r.error] : r \in neighborhood_func(i, o.ret)}

RECURSIVE shake_loop(_, _, _, _)
\* The loop of line 455 with n passes left.  `outs` are Outcomes of the part
\* of _shake already run: ret is the current s_prime, arg the contents of
\* the caller's object.
shake_loop(outs, ref, i, n) ==
    IF n = 0 THEN outs
    ELSE shake_loop(UNION {shake_step(o, ref, i) : o \in outs}, ref, i, n - 1)

\* A faulty shake: the operator is applied once, whatever k.
shake_once(solution, k) ==
    shake_loop(unchanged(solution, copy_deepcopy(solution)), solution.ref, k - 1, 1)

\* _shake(solution, k): operator k-1, k times, on a deep copy.
shake(solution, k) ==
    shake_loop(unchanged(solution, copy_deepcopy(solution)), solution.ref, k - 1, k)

(***************************************************************************)
(* RVNS.solve, RVNS._local_search and main() as a state machine.           *)
(***************************************************************************)

VARIABLES
    pc,             \* where the run is
    expired,        \* time.time() - start_time >= time_limit
    s,              \* solve: the initial solution
    warnings,       \* the patients named in the builder's printed warnings
    best_solution,  \* self.best_solution
    best_cost,      \* self.best_cost
    k,              \* solve: the neighborhood index, 1-based
    s_prime,        \* solve: the shaken solution, the argument of _local_search
    s_current,      \* _local_search: the current solution
    shared,         \* _local_search: s_current is the very object it was passed
    cost_current,   \* _local_search: the cost of s_current
    k_ls,           \* _local_search: its k, 0-based
    call,           \* the last call of an operator or of _shake: its name, its
                    \* argument before and after the call, what it returned
    final_cost,     \* main: the total of the returned solution
    costs_breakdown,\* main: its breakdown
    raised,         \* main: the exception evaluate_solution ended with
    hospital        \* Loader: self.patients and self.occupants, the dicts
                    \* that the constraint functions are handed

vars == <<pc, expired, s, warnings, best_solution, best_cost, k, s_prime,
          s_current, shared, cost_current, k_ls, call, final_cost,
          costs_breakdown, raised, hospital>>

\* Loader.__init__ has run.
LoadedHospital == [patients |-> patients, occupants |-> occupants]

NoCall == [fn |-> "none", arg |-> EmptySolution, arg_after |-> EmptySolution,
           ret |-> EmptySolution]

NoCosts == [c \in {"H1", "H2", "H3", "H4", "H5", "H6", "H7",
                   "S1", "S2", "S3", "S4", "S5", "S6", "S7", "S8"} |-> 0]

\* The locals of solve and _local_search before they are bound.
Unbound ==
    /\ s_prime = EmptySolution
    /\ s_current = EmptySolution
    /\ shared = FALSE
    /\ cost_current = 0
    /\ k_ls = 0
    /\ call = NoCall

\* The locals go out of scope.
Unbind ==
    /\ s_prime' = EmptySolution
    /\ s_current' = EmptySolution
    /\ shared' = FALSE
    /\ cost_current' = 0
    /\ k_ls' = 0
    /\ call' = NoCall

\* RVNS.__init__ has run.
Init ==
    /\ pc = "start"
    /\ expired = FALSE
    /\ s = EmptySolution
    /\ warnings = <<>>
    /\ best_solution = EmptySolution
    /\ best_cost = Infinity
    /\ k = 0
    /\ Unbound
    /\ final_cost = 0
    /\ costs_breakdown = NoCosts
    /\ raised = "none"
    /\ hospital = LoadedHospital

\* The clock passes the deadline, at any moment of the run.
Tick ==
    /\ pc \in {"start", "outer", "inner", "ls_start", "ls", "compare"}
    /\ ~expired
    /\ expired' = TRUE
    /\ UNCHANGED <<pc, s, warnings, best_solution, best_cost, k, s_prime,
                   s_current, shared, cost_current, k_ls, call, final_cost,
                   costs_breakdown, raised,
                   hospital>>

\* Lines 482-488.
GenerateInitial ==
    /\ pc = "start"
    /\ \E st \in generate_initial_solution :
        /\ s' = st.solution
        /\ warnings' = st.warnings
        /\ best_solution' = st.solution
        /\ best_cost' = evaluate_solution(st.solution)
        /\ hospital' = hospital_after(hospital, st.solution)
    /\ pc' = "outer"
    /\ UNCHANGED <<expired, k, s_prime, s_current, shared, cost_current, k_ls,
                   call, final_cost, costs_breakdown, raised>>

\* Line 491: the deadline test, then lines 492-493.  (`iteration` is only
\* printed and is left out.)
OuterCheck ==
    /\ pc = "outer"
    /\ IF expired THEN pc' = "done" /\ k' = k
       ELSE pc' = "inner" /\ k' = 1
    /\ UNCHANGED <<expired, s, warnings, best_solution, best_cost, s_prime,
                   s_current, shared, cost_current, k_ls, call, final_cost,
                   costs_breakdown, raised,
                   hospital>>

\* Line 494 when k > k_max.
InnerExit ==
    /\ pc = "inner"
    /\ k > k_max
    /\ pc' = "outer"
    /\ UNCHANGED <<expired, s, warnings, best_solution, best_cost, k, s_prime,
                   s_current, shared, cost_current, k_ls, call, final_cost,
                   costs_breakdown, raised,
                   hospital>>

\* Lines 494-496: s_prime = self._shake(self.best_solution, k).
Shake ==
    /\ pc = "inner"
    /\ k <= k_max
    /\ \E r \in shake(Obj(0, best_solution), k) :
        /\ best_solution' = r.arg
        /\ s_prime' = r.ret.val
        /\ call' = [fn |-> "_shake", arg |-> best_solution, arg_after |-> r.arg,
                    ret |-> r.ret.val]
        /\ pc' = IF r.error = "none" THEN "ls_start" ELSE "crashed"
    /\ UNCHANGED <<expired, s, warnings, best_cost, k, s_current, shared,
                   cost_current, k_ls, final_cost, costs_breakdown, raised,
                   hospital>>

\* Lines 461-464: _local_search(s_prime) begins.
LocalSearchStart ==
    /\ pc = "ls_start"
    /\ LET solution == Obj(0, s_prime)
           current == copy_deepcopy(solution)
       IN  /\ s_current' = current.val
           /\ shared' = (current.ref = solution.ref)
           /\ cost_current' = evaluate_solution(current.val)
           /\ hospital' = hospital_after(hospital, current.val)
    /\ k_ls' = 0
    /\ pc' = "ls"
    /\ UNCHANGED <<expired, s, warnings, best_solution, best_cost, k, s_prime,
                   call, final_cost, costs_breakdown, raised>>

\* A faulty test: a candidate of equal cost is accepted too.
accepts_ties(cost_neighbor, cost) == cost_neighbor <= cost

\* Lines 472 and 503: the acceptance test, of _local_search and of solve.
accepts(cost_neighbor, cost) == cost_neighbor < cost

\* The contents, after a call that was given the object probe and had the
\* outcome r, of the object `ref` that held val before the call.
after_call(probe, r, ref, val) ==
    IF ref = probe.ref THEN r.arg
    ELSE IF ref = r.ret.ref THEN r.ret.val
    ELSE val

\* A faulty pass: the neighbor becomes s_current whatever its cost, and the
\* loop moves on to the next neighborhood.
takes_every_neighbor(current, probe, r, cost_neighbor) ==
    /\ call' = [fn |-> neighborhoods[k_ls + 1], arg |-> probe.val,
                arg_after |-> r.arg, ret |-> r.ret.val]
    /\ s_prime' = after_call(probe, r, 0, s_prime)
    /\ pc' = IF r.error # "none" THEN "crashed" ELSE "ls"
    /\ s_current' = r.ret.val
    /\ shared' = (r.ret.ref = 0)
    /\ cost_current' = cost_neighbor
    /\ k_ls' = k_ls + 1

\* A faulty pass: k goes back to 0 when the neighbor is rejected too.
restarts_on_every_pass(current, probe, r, cost_neighbor) ==
    /\ call' = [fn |-> neighborhoods[k_ls + 1], arg |-> probe.val,
                arg_after |-> r.arg, ret |-> r.ret.val]
    /\ s_prime' = after_call(probe, r, 0, s_prime)
    /\ pc' = IF r.error # "none" THEN "crashed" ELSE "ls"
    /\ k_ls' = IF r.error # "none" THEN k_ls ELSE 0
    /\ IF r.error = "none" /\ accepts(cost_neighbor, cost_current)
       THEN /\ s_current' = r.ret.val
            /\ shared' = (r.ret.ref = 0)
            /\ cost_current' = cost_neighbor
       ELSE /\ s_current' = after_call(probe, r, current.ref, s_current)
            /\ UNCHANGED <<shared, cost_current>>

\* Lines 469-477 after s_best_neighbor = neighborhood_func(s_current), the
\* call having been given the object probe and had the outcome r.
LocalSearchAccept(current, probe, r, cost_neighbor) ==
    /\ call' = [fn |-> neighborhoods[k_ls + 1], arg |-> probe.val,
                arg_after |-> r.arg, ret |-> r.ret.val]
    /\ s_prime' = after_call(probe, r, 0, s_prime)
    /\ IF r.error # "none"
       THEN /\ pc' = "crashed"
            /\ UNCHANGED <<s_current, shared, cost_current, k_ls>>
       ELSE /\ pc' = "ls"
            /\ IF accepts(cost_neighbor, cost_current)
               THEN /\ s_current' = r.ret.val
                    /\ shared' = (r.ret.ref = 0)
                    /\ cost_current' = cost_neighbor
                    /\ k_ls' = 0
               ELSE /\ s_current' = after_call(probe, r, current.ref, s_current)
                    /\ k_ls' = k_ls + 1
                    /\ UNCHANGED <<shared, cost_current>>

\* Lines 469-470: the operator is given a deep copy of s_current, and what
\* it returns is evaluated.
LocalSearchCall(current) ==
    \E r \in neighborhood_func(k_ls, copy_deepcopy(current)) :
        /\ LocalSearchAccept(current, copy_deepcopy(current), r,
                             evaluate_solution(r.ret.val))
        /\ hospital' = IF r.error = "none"
                       THEN hospital_after(hospital, r.ret.val)
                       ELSE hospital

\* Lines 465-477: one pass of the loop of _local_search.  s_current is the
\* object 0 (the argument of _local_search) when shared, else the object 1.
LocalSearchStep ==
    /\ pc = "ls"
    /\ k_ls < k_max
    /\ LocalSearchCall(Obj(IF shared THEN 0 ELSE 1, s_current))
    /\ UNCHANGED <<expired, s, warnings, best_solution, best_cost, k,
                   final_cost, costs_breakdown, raised>>

\* Line 478: return s_current (solve's s_second).
LocalSearchReturn ==
    /\ pc = "ls"
    /\ k_ls = k_max
    /\ pc' = "compare"
    /\ UNCHANGED <<expired, s, warnings, best_solution, best_cost, k, s_prime,
                   s_current, shared, cost_current, k_ls, call, final_cost,
                   costs_breakdown, raised,
                   hospital>>

\* A faulty update: k is not advanced when the candidate is rejected.
next_k_stuck(k_now, improved) == IF improved THEN 1 ELSE k_now

\* A faulty update: k is advanced even when the candidate is accepted.
next_k_never_resets(k_now, improved) == k_now + 1

\* Lines 507 and 509.
next_k(k_now, improved) == IF improved THEN 1 ELSE k_now + 1

\* A faulty comparison: the candidate replaces the incumbent whatever its
\* cost.
always_replaces(s_second, cost_second) ==
    /\ best_solution' = s_second
    /\ best_cost' = cost_second
    /\ k' = next_k(k, FALSE)

\* Lines 503-509.
NeighborhoodChange(s_second, cost_second) ==
    /\ IF accepts(cost_second, best_cost)
       THEN best_solution' = s_second /\ best_cost' = cost_second
       ELSE UNCHANGED <<best_solution, best_cost>>
    /\ k' = next_k(k, accepts(cost_second, best_cost))

\* Lines 500-509, s_second being the s_current that _local_search returned.
\* The locals of _local_search are gone and s_prime and s_second are bound
\* again before they are read: they are cleared here.
Compare ==
    /\ pc = "compare"
    /\ NeighborhoodChange(s_current, evaluate_solution(s_current))
    /\ hospital' = hospital_after(hospital, s_current)
    /\ pc' = "inner"
    /\ Unbind
    /\ UNCHANGED <<expired, s, warnings, final_cost, costs_breakdown, raised>>

\* main(), lines 34-43: the returned solution is evaluated and reported;
\* total_cost is the sum of the breakdown.
Report ==
    /\ pc = "done"
    /\ IF h7_room_capacity_KeyError(best_solution)
       THEN raised' = "KeyError" /\ UNCHANGED <<final_cost, costs_breakdown>>
       ELSE /\ raised' = "none"
            /\ costs_breakdown' = evaluate_costs(best_solution)
            /\ final_cost' = SumAll(costs_breakdown')
    /\ hospital' = hospital_after(hospital, best_solution)
    /\ pc' = "reported"
    /\ UNCHANGED <<expired, s, warnings, best_solution, best_cost, k, s_prime,
                   s_current, shared, cost_current, k_ls, call>>

Next ==
    \/ Tick
    \/ GenerateInitial
    \/ OuterCheck
    \/ InnerExit
    \/ Shake
    \/ LocalSearchStart
    \/ LocalSearchStep
    \/ LocalSearchReturn
    \/ Compare
    \/ Report

Spec == Init /\ [][Next]_vars

\* A step of the program: any step but the clock's.
Step ==
    \/ GenerateInitial
    \/ OuterCheck
    \/ InnerExit
    \/ Shake
    \/ LocalSearchStart
    \/ LocalSearchStep
    \/ LocalSearchReturn
    \/ Compare
    \/ Report

\* The process has ended: main() has reported, or an exception has ended it.
Halted == pc \in {"reported", "crashed"}

\* The step leaves the clock's flag alone.  Tick is the one action that
\* changes `expired`, and it changes nothing else: a step of Next that
\* changes the state is a step of the program exactly when it is such a step.
NotTheClock == expired' = expired

\* What the comment of NotTheClock says, as a property of Spec.
StepIsNotTheClock == [][Step <=> NotTheClock]_vars

\* The interpreter keeps running the program: while the process has not
\* ended it takes steps.  The clock (Tick) owes nothing.  This is weak
\* fairness of Step, written with Halted for ~ENABLED <<Step>>_vars (in every
\* state that is not Halted one of the disjuncts of Step can be taken, and
\* none can in a Halted state) and with NotTheClock for Step.
LiveSpec == Spec /\ ([]<>Halted \/ []<><<NotTheClock>>_vars)

(***************************************************************************)
(* evaluate_solution on solutions that no run need produce: main() is      *)
(* about to evaluate a solution drawn from EvalSolutions.                  *)
(***************************************************************************)

\* The longest list of placements drawn.
MaxPlacements == 2

\* The (admission_day, room, operating_theater) of the placements drawn:
\* "rx" and "tx" are not in the instance, "r1" holds the occupant.
EvalSlots ==
    { <<0, "r0", "t0">>, <<1, "r0", "t0">>, <<0, "r1", "t0">>,
      <<1, "r1", "t0">>, <<0, "rx", "t0">>, <<0, "r0", "tx">> }

\* Placements of the patients of the instance and of "px", who is not in
\* the instance.
EvalPlacements ==
    {[id |-> p_id, admission_day |-> c[1], room |-> c[2],
      operating_theater |-> c[3]] :
        p_id \in {patients[i].id : i \in DOMAIN patients} \cup {"px"},
        c \in EvalSlots}

\* No nurse; n0 in "r0" on three shifts, with "nx", who is not in the
\* instance, on the first of them; the same with n1 after n0 on the first.
EvalNurses ==
    { <<>>,
      << [id |-> "n0", assignments |->
            <<[day |-> 0, shift |-> "early", rooms |-> <<"r0">>],
              [day |-> 1, shift |-> "early", rooms |-> <<"r0">>],
              [day |-> 1, shift |-> "late", rooms |-> <<"r0">>]>>],
         [id |-> "nx", assignments |->
            <<[day |-> 0, shift |-> "early", rooms |-> <<"r0">>]>>] >>,
      << [id |-> "n0", assignments |->
            <<[day |-> 0, shift |-> "early", rooms |-> <<"r0">>],
              [day |-> 1, shift |-> "early", rooms |-> <<"r0">>],
              [day |-> 1, shift |-> "late", rooms |-> <<"r0">>]>>],
         [id |-> "n1", assignments |->
            <<[day |-> 0, shift |-> "early", rooms |-> <<"r0">>]>>] >> }

EvalSolutions ==
    [patients : UNION {[1..n -> EvalPlacements] : n \in 0..MaxPlacements},
     nurses : EvalNurses]

EvalInit ==
    /\ pc = "done"
    /\ expired = TRUE
    /\ s = EmptySolution
    /\ warnings = <<>>
    /\ best_solution \in EvalSolutions
    /\ best_cost = Infinity
    /\ k = 0
    /\ Unbound
    /\ final_cost = 0
    /\ costs_breakdown = NoCosts
    /\ raised = "none"
    /\ hospital = LoadedHospital

EvalNext == Report

EvalSpec == EvalInit /\ [][EvalNext]_vars

(***************************************************************************)
(* The claims.                                                             *)
(***************************************************************************)

\* No H1, H2, H3, H4, H6 or H7 violation.
hard_clean(solution) ==
    /\ h1_no_gender_mix(solution) = 0
    /\ h2_compatible_rooms(solution) = 0
    /\ h3_surgeon_overtime(solution) = 0
    /\ h4_ot_overtime(solution) = 0
    /\ h6_admission_day(solution) = 0
    /\ h7_room_capacity(solution) = 0

\* The last call recorded is a call of one of the five operators.
operator_called == call.fn \in Range(neighborhoods)

\* C1: when _local_search returns, the total cost of what it returns
\* (s_current) is at most the total cost of the solution it was given
\* (s_prime).
C1_LocalSearchNeverWorsens ==
    pc = "compare" => evaluate_solution(s_current) <= evaluate_solution(s_prime)

\* _local_search has returned a solution strictly cheaper than its input.
C1_Witness ==
    pc = "compare" /\ evaluate_solution(s_current) < evaluate_solution(s_prime)

\* C2: once the initial solution is recorded, best_cost never increases;
\* best_solution and best_cost change only at the comparison of solve, to
\* the candidate that local search returned and its evaluated cost, which
\* is strictly below the best_cost before; and at the head of the outer and
\* of the inner loop best_cost is the total cost of best_solution.
C2_BestCostNonIncreasing ==
    [][/\ best_cost' <= best_cost
       /\ (pc # "start" /\ <<best_solution', best_cost'>> # <<best_solution, best_cost>>)
            => /\ pc = "compare"
               /\ best_solution' = s_current
               /\ best_cost' = evaluate_solution(s_current)
               /\ best_cost' < best_cost
       /\ pc' \in {"outer", "inner"} =>
            best_cost' = evaluate_solution(best_solution')]_vars

\* At the head of the inner loop the incumbent is no longer the initial
\* solution and is strictly cheaper than it.
C2_Witness ==
    /\ pc = "inner"
    /\ best_solution # s
    /\ best_cost < evaluate_solution(s)

\* C3: every call of an operator or of _shake leaves the contents of the
\* solution passed to it as they were; while _shake and _local_search run,
\* best_solution does not change; and while _local_search runs, the solution
\* passed to it (s_prime) does not change.
C3_ArgumentsUnchanged ==
    [][/\ call'.arg_after = call'.arg
       /\ pc \in {"inner", "ls_start", "ls"} => best_solution' = best_solution
       /\ pc \in {"ls_start", "ls"} => s_prime' = s_prime]_vars

\* An operator has returned a solution that differs from its argument, and
\* the argument is as it was.
C3_Witness ==
    /\ operator_called
    /\ call.ret # call.arg
    /\ call.arg_after = call.arg

\* C4: an operator applied to a solution with no H1, H2, H3, H4, H6 or H7
\* violation returns a solution with none.
C4_OperatorsPreserveHardConstraints ==
    (operator_called /\ hard_clean(call.arg)) => hard_clean(call.ret)

\* C5: the solution the builder returns has no H1, H2, H3, H4, H6 or H7
\* violation (the occupants alone cause none in this instance).  The state
\* with pc = "outer" and k = 0 is the one the builder's return leads to.
C5_InitialSolutionHardClean ==
    (pc = "outer" /\ k = 0) => hard_clean(s) /\ best_solution = s

\* The builder has returned a solution with a placement and a nurse.
C5_Witness ==
    /\ pc = "outer" /\ k = 0
    /\ s.patients # <<>>
    /\ s.nurses # <<>>

\* C6: once the deadline has passed, solve returns (pc = "done", with
\* best_solution the value returned), and the deadline test of the outer
\* loop, taken after the deadline, starts no further iteration.
C6_ReturnsAfterDeadline ==
    /\ expired ~> pc \in {"done", "reported"}
    /\ [][(expired /\ pc = "outer") => pc' = "done"]_vars

\* solve has returned after the deadline, an inner loop having run to its
\* end with an incumbent other than the initial solution.
C6_Witness ==
    /\ pc = "done"
    /\ expired
    /\ k = k_max + 1
    /\ best_solution # s

\* No two placements of the solution have the same patient id.
one_placement_per_patient(solution) ==
    \A i, j \in DOMAIN solution.patients :
        solution.patients[i].id = solution.patients[j].id => i = j

\* The solutions the run holds or has just produced.
solutions_held == {s, best_solution, s_prime, s_current, call.arg, call.ret}

\* C7: in every solution the run holds or produces, each patient id has at
\* most one placement.
C7_OnePlacementPerPatient ==
    \A solution \in solutions_held : one_placement_per_patient(solution)

\* _neighborhood_reschedule_unscheduled has added a placement to a solution
\* that had one.
C7_Witness ==
    /\ call.fn = "_neighborhood_reschedule_unscheduled"
    /\ call.arg.patients # <<>>
    /\ Len(call.ret.patients) = Len(call.arg.patients) + 1

\* The nurse has at most one duty record per (day, shift), each on a
\* (day, shift) on which the instance rosters the nurse.
duty_records_ok(n_sol) ==
    /\ \A a, b \in DOMAIN n_sol.assignments :
            (/\ n_sol.assignments[a].day = n_sol.assignments[b].day
             /\ n_sol.assignments[a].shift = n_sol.assignments[b].shift) => a = b
    /\ \A a \in DOMAIN n_sol.assignments :
            \E w \in DOMAIN nurses_dict[n_sol.id].working_shifts :
                /\ nurses_dict[n_sol.id].working_shifts[w].day
                        = n_sol.assignments[a].day
                /\ nurses_dict[n_sol.id].working_shifts[w].shift
                        = n_sol.assignments[a].shift

\* C8: in every solution the run holds or produces, each nurse has at most
\* one duty record per (day, shift), and each duty record is on a
\* (day, shift) for which the nurse is rostered.
C8_NurseDutyRecords ==
    \A solution \in solutions_held :
        \A n \in DOMAIN solution.nurses : duty_records_ok(solution.nurses[n])

\* The nurse swap has returned a solution whose two nurses exchanged rooms.
C8_Witness ==
    /\ call.fn = "_neighborhood_change_nurse_assignment"
    /\ Len(call.arg.nurses) >= 2
    /\ call.ret.nurses # call.arg.nurses

\* The placement names a patient, a room or an operating theater that is
\* not in the instance.
invalid_placement(p_sol) ==
    \/ get_patient_by_id(p_sol.id) = None
    \/ p_sol.room \notin DOMAIN room_dict
    \/ p_sol.operating_theater \notin DOMAIN operating_theaters_dict

\* The solution without the placements and the nurses that name an id the
\* instance does not have.
without_invalid(solution) ==
    [patients |-> SelectSeq(solution.patients, LAMBDA p_sol : ~invalid_placement(p_sol)),
     nurses |-> SelectSeq(solution.nurses, LAMBDA n_sol : n_sol.id \in DOMAIN nurses_dict)]

\* C9: the evaluation of a solution with a placement whose patient, room or
\* operating theater is not in the instance, or a nurse who is not, raises
\* nothing and gives for every constraint the value of the solution without
\* those entries.
C9_InvalidEntriesSkipped ==
    (pc = "reported" /\ without_invalid(best_solution) # best_solution)
        => /\ raised = "none"
           /\ costs_breakdown = evaluate_costs(without_invalid(best_solution))

\* The mandatory patients of the instance.
mandatory_ids == {p_id \in DOMAIN patient_dict : patient_dict[p_id].mandatory}

\* C10: for every solution, the H5 value over HARD_VIOLATION_PENALTY plus
\* the number of mandatory patients with a placement is the number of
\* mandatory patients; and H5 of the reported breakdown is that value.
C10_H5CountsUnplacedMandatory ==
    /\ h5_mandatory_unscheduled(best_solution) \div HARD_VIOLATION_PENALTY
            + Cardinality(mandatory_ids \cap admitted_ids(best_solution.patients))
        = Cardinality(mandatory_ids)
    /\ h5_mandatory_unscheduled(best_solution) % HARD_VIOLATION_PENALTY = 0
    /\ (pc = "reported" /\ raised = "none") =>
            costs_breakdown.H5 = h5_mandatory_unscheduled(best_solution)

\* A solution that places two of the three mandatory patients has been
\* evaluated: H5 is one violation.
C10_Witness ==
    /\ pc = "reported"
    /\ raised = "none"
    /\ Cardinality(mandatory_ids \cap admitted_ids(best_solution.patients)) = 2
    /\ costs_breakdown.H5 = HARD_VIOLATION_PENALTY

\* The non-mandatory patients of the instance.
optional_ids == DOMAIN patient_dict \ mandatory_ids

\* The number of non-mandatory patients with no placement in the solution:
\* those of the instance less those that a placement names.
unplaced_optionals(solution) ==
    Cardinality(optional_ids)
        - Cardinality(optional_ids \cap admitted_ids(solution.patients))

\* C11 as stated: the S8 entry of the reported breakdown is the number of
\* non-mandatory patients with no placement.
C11_S8IsTheCount ==
    (pc = "reported" /\ raised = "none") =>
        costs_breakdown.S8 = unplaced_optionals(best_solution)

\* C11, amended: the S8 entry of the reported breakdown is the configured
\* weight unscheduled_optional times the number of non-mandatory patients
\* with no placement.
C11_S8IsTheWeightedCount ==
    (pc = "reported" /\ raised = "none") =>
        costs_breakdown.S8
            = weights.unscheduled_optional * unplaced_optionals(best_solution)

\* A solution that places a mandatory patient and leaves the optional one
\* out has been evaluated: S8 is the weight.
C11_Witness ==
    /\ pc = "reported"
    /\ raised = "none"
    /\ mandatory_ids \cap admitted_ids(best_solution.patients) # {}
    /\ unplaced_optionals(best_solution) = 1
    /\ costs_breakdown.S8 = weights.unscheduled_optional

\* The sum of the seven hard entries of a breakdown.
hard_sum(costs) ==
    costs.H1 + costs.H2 + costs.H3 + costs.H4 + costs.H5 + costs.H6 + costs.H7

\* The hard violations the seven functions count on the solution.
hard_violations_counted(solution) ==
    h1_violations(get_all_patients_in_rooms(solution))
    + h2_violations(known_placements(solution.patients))
    + h3_violations(surgeon_load(known_placements(solution.patients)))
    + h4_violations(ot_load(known_placements(solution.patients)))
    + Cardinality(mandatory_ids \ admitted_ids(solution.patients))
    + h6_violations(known_placements(solution.patients))
    + h7_violations(get_all_patients_in_rooms(solution))

\* C12: the sum of the H1..H7 entries of the reported breakdown is not
\* negative and is HARD_VIOLATION_PENALTY times the number of hard
\* violations counted, with no remainder.
C12_HardPenaltyQuantized ==
    (pc = "reported" /\ raised = "none") =>
        /\ hard_sum(costs_breakdown) >= 0
        /\ hard_sum(costs_breakdown) % HARD_VIOLATION_PENALTY = 0
        /\ hard_sum(costs_breakdown) \div HARD_VIOLATION_PENALTY
                = hard_violations_counted(best_solution)

\* A breakdown has been reported in which H1, H6 and H7 are each positive
\* and soft costs are present beside them.
C12_Witness ==
    /\ pc = "reported"
    /\ raised = "none"
    /\ costs_breakdown.H1 > 0
    /\ costs_breakdown.H6 > 0
    /\ costs_breakdown.H7 > 0
    /\ final_cost > hard_sum(costs_breakdown)

\* The placement names a patient of the instance and admits the patient
\* `delay` days after the release day (before it when delay is negative).
admitted_with_delay(p_sol, delay) ==
    /\ p_sol.id \in DOMAIN patient_dict
    /\ p_sol.admission_day - patient_dict[p_sol.id].surgery_release_day = delay

\* C13: the weights of the instance being non-negative, each of the
\* fifteen values of the reported breakdown is at least 0, and so is the
\* reported total.
C13_NonNegative ==
    (pc = "reported" /\ raised = "none") =>
        /\ \A w \in DOMAIN weights : weights[w] >= 0
        /\ DOMAIN costs_breakdown = DOMAIN NoCosts
        /\ \A c \in DOMAIN costs_breakdown : costs_breakdown[c] >= 0
        /\ final_cost >= 0

\* A solution with one patient admitted two days before the release day
\* and another one day after it has been evaluated: S7 is the one day of
\* delay times its weight.
C13_Witness ==
    /\ pc = "reported"
    /\ raised = "none"
    /\ \E i \in DOMAIN best_solution.patients :
            admitted_with_delay(best_solution.patients[i], -2)
    /\ \E i \in DOMAIN best_solution.patients :
            admitted_with_delay(best_solution.patients[i], 1)
    /\ costs_breakdown.S7 = weights.patient_delay

\* C14: no evaluation changes the data of the instance, and the evaluation
\* of main leaves the returned solution as it is; so the solution that
\* solve evaluated when it recorded best_cost is evaluated by main a second
\* time, unmodified and on the same instance, and the total is the same.
\* (solve keeps the total of its evaluation only, so the totals are what
\* the two evaluations can be compared on.)
C14_EvaluationIsPure ==
    [][/\ hospital' = hospital
       /\ pc = "done" => best_solution' = best_solution
       /\ (pc' = "reported" /\ raised' = "none") => final_cost' = best_cost]_vars

\* main has evaluated a returned solution with a placement, for which the
\* generator wrote to a copy of the patient, and the instance is as loaded.
C14_Witness ==
    /\ pc = "reported"
    /\ raised = "none"
    /\ writes_to(best_solution.patients, 0) # {}
    /\ final_cost = best_cost
    /\ hospital = LoadedHospital

\* The placements of the solution, of patients the instance knows, whose
\* stay (length_of_stay days from the admission day) covers day d in room r.
placed_on(solution, d, r) ==
    {i \in DOMAIN solution.patients :
        /\ get_patient_by_id(solution.patients[i].id) # None
        /\ solution.patients[i].room = r
        /\ solution.patients[i].admission_day <= d
        /\ d < solution.patients[i].admission_day
                + get_patient_by_id(solution.patients[i].id).length_of_stay}

\* The occupants, in the hospital from day 0, who are in room r on day d.
occupying_on(d, r) ==
    {i \in DOMAIN occupants :
        occupants[i].room_id = r /\ d < occupants[i].length_of_stay}

genders_on(solution, d, r) ==
    {get_patient_by_id(solution.patients[i].id).gender :
        i \in placed_on(solution, d, r)}
    \cup {occupants[i].gender : i \in occupying_on(d, r)}

\* The rooms of the instance and those the solution names.
rooms_named(solution) ==
    DOMAIN room_dict \cup {solution.patients[i].room : i \in DOMAIN solution.patients}

\* The (day, room) pairs of the horizon with two genders or more.
gender_mixed(solution) ==
    {dr \in (0..(days - 1)) \X rooms_named(solution) :
        Cardinality(genders_on(solution, dr[1], dr[2])) >= 2}

\* The solution with its first placement only.
first_placement_only(solution) ==
    [solution EXCEPT !.patients = SubSeq(@, 1, 1)]

\* Two placements, of patients of different genders, in one room that has
\* no occupant.
gender_scenario(solution) ==
    /\ Len(solution.patients) = 2
    /\ \A i \in 1..2 : solution.patients[i].id \in DOMAIN patient_dict
    /\ solution.patients[1].room = solution.patients[2].room
    /\ \A i \in DOMAIN occupants : occupants[i].room_id # solution.patients[1].room
    /\ patient_dict[solution.patients[1].id].gender
            # patient_dict[solution.patients[2].id].gender

\* C15: H1 is HARD_VIOLATION_PENALTY times the number of (day, room) pairs
\* of the horizon whose occupants (the placed patients over their stay, the
\* occupants from day 0) have two genders or more, and this is the H1 of
\* the reported breakdown; two patients of different genders placed alone
\* in one room give one violation for each day both are there, and the
\* solution with only one of them gives none.
C15_H1CountsMixedRoomDays ==
    /\ h1_no_gender_mix(best_solution)
            = HARD_VIOLATION_PENALTY * Cardinality(gender_mixed(best_solution))
    /\ (pc = "reported" /\ raised = "none") =>
            costs_breakdown.H1 = h1_no_gender_mix(best_solution)
    /\ gender_scenario(best_solution) =>
            /\ h1_no_gender_mix(best_solution)
                    = HARD_VIOLATION_PENALTY
                        * Cardinality({d \in 0..(days - 1) :
                            Cardinality(placed_on(best_solution, d,
                                            best_solution.patients[1].room)) = 2})
            /\ h1_no_gender_mix(first_placement_only(best_solution)) = 0

\* The scenario has been evaluated with both patients admitted on the same
\* day: H1 is one violation.
C15_Witness ==
    /\ pc = "reported"
    /\ raised = "none"
    /\ gender_scenario(best_solution)
    /\ best_solution.patients[1].admission_day = best_solution.patients[2].admission_day
    /\ costs_breakdown.H1 = HARD_VIOLATION_PENALTY

\* The (day, room) pairs of the horizon with more occupants than beds.
over_capacity(solution) ==
    {dr \in (0..(days - 1)) \X DOMAIN room_dict :
        Cardinality(placed_on(solution, dr[1], dr[2]))
            + Cardinality(occupying_on(dr[1], dr[2]))
        > room_dict[dr[2]].capacity}

\* C16: for a solution whose rooms are rooms of the instance, H7 is
\* HARD_VIOLATION_PENALTY times the number of (day, room) pairs of the
\* horizon whose occupants (the placed patients over their stay, the
\* occupants from day 0) are more than the room has beds, and this is the
\* H7 of the reported breakdown; so two patients together in a room of one
\* bed on a day give at least one violation, and a room whose occupants
\* are never more than its beds gives none.
C16_H7CountsOverfullRoomDays ==
    ~h7_room_capacity_KeyError(best_solution) =>
        /\ h7_room_capacity(best_solution)
                = HARD_VIOLATION_PENALTY * Cardinality(over_capacity(best_solution))
        /\ pc = "reported" =>
                /\ raised = "none"
                /\ costs_breakdown.H7 = h7_room_capacity(best_solution)
        /\ (\E dr \in (0..(days - 1)) \X DOMAIN room_dict :
                /\ room_dict[dr[2]].capacity = 1
                /\ Cardinality(placed_on(best_solution, dr[1], dr[2]))
                        + Cardinality(occupying_on(dr[1], dr[2])) >= 2)
            => h7_room_capacity(best_solution) >= HARD_VIOLATION_PENALTY

\* A solution has been evaluated that places a patient for one day in the
\* room of one bed beside its occupant, who stays on alone the next day:
\* H7 is one violation.
C16_Witness ==
    /\ pc = "reported"
    /\ raised = "none"
    /\ Cardinality(placed_on(best_solution, 0, "r1")) = 1
    /\ placed_on(best_solution, 1, "r1") = {}
    /\ occupying_on(1, "r1") # {}
    /\ costs_breakdown.H7 = HARD_VIOLATION_PENALTY

\* The bounds of its patient's window that the placement breaks: admitted
\* before the release day, and, for a mandatory patient, after the due day.
broken_bounds(p_sol) ==
    IF p_sol.id \notin DOMAIN patient_dict THEN 0
    ELSE (IF p_sol.admission_day < patient_dict[p_sol.id].surgery_release_day
          THEN 1 ELSE 0)
         + (IF /\ p_sol.id \in mandatory_ids
               /\ p_sol.admission_day > patient_dict[p_sol.id].surgery_due_day
            THEN 1 ELSE 0)

\* The placement admits its patient, of the instance, on or after the
\* release day and, when the patient is mandatory, on or before the due day.
inside_window(p_sol) ==
    /\ p_sol.id \in DOMAIN patient_dict
    /\ p_sol.admission_day >= patient_dict[p_sol.id].surgery_release_day
    /\ p_sol.id \in mandatory_ids =>
            p_sol.admission_day <= patient_dict[p_sol.id].surgery_due_day

\* C17: H6 is HARD_VIOLATION_PENALTY times the sum, over the placements, of
\* the bounds each breaks (one for an admission before the release day, one
\* more for a mandatory patient admitted after the due day), and this is
\* the H6 of the reported breakdown; a placement inside the window adds
\* nothing, and neither does an optional patient admitted on any day from
\* the release day on.
C17_H6CountsBrokenBounds ==
    /\ h6_admission_day(best_solution)
            = HARD_VIOLATION_PENALTY
                * SumAll([i \in DOMAIN best_solution.patients |->
                            broken_bounds(best_solution.patients[i])])
    /\ (pc = "reported" /\ raised = "none") =>
            costs_breakdown.H6 = h6_admission_day(best_solution)
    /\ (\A i \in DOMAIN best_solution.patients :
            inside_window(best_solution.patients[i]))
        => h6_admission_day(best_solution) = 0
    /\ (\A i \in DOMAIN best_solution.patients :
            /\ best_solution.patients[i].id \in optional_ids
            /\ best_solution.patients[i].admission_day
                    >= patient_dict[best_solution.patients[i].id].surgery_release_day)
        => h6_admission_day(best_solution) = 0

\* A solution has been evaluated in which a mandatory patient is admitted
\* before the release day and after the due day, beside a placement inside
\* its window: H6 is two violations.
C17_Witness ==
    /\ pc = "reported"
    /\ raised = "none"
    /\ \E i \in DOMAIN best_solution.patients :
            broken_bounds(best_solution.patients[i]) = 2
    /\ \E i \in DOMAIN best_solution.patients :
            inside_window(best_solution.patients[i])
    /\ costs_breakdown.H6 = 2 * HARD_VIOLATION_PENALTY

\* For the triple t and the shift: the required skill above the skill of
\* the nurse covering the slot, the requirement being the entry of the
\* patient's vector at (day offset) * (number of shift types) + shift; 0
\* when the slot has no nurse.
skill_shortfall(nurse_assignments, t, shift_idx) ==
    s2_shortfall(nurse_assignments, t, shift_idx,
                 (t.day - Get(t.patient, "admission_day", 0)) * Len(shift_types)
                    + shift_idx)

\* C18: the S2 of the reported breakdown is the weight room_nurse_skill
\* times the sum, over the days of every stay and the shift types, of the
\* required skill above the covering nurse's skill, the requirement being
\* read from the patient's vector at that day offset and shift.
C18_S2ReadsTheSlotOfTheShift ==
    (pc = "reported" /\ raised = "none") =>
        costs_breakdown.S2
            = weights.room_nurse_skill
                * SumAll([u \in (DOMAIN get_all_patients_in_rooms(best_solution))
                                    \X (0..(Len(shift_types) - 1)) |->
                            skill_shortfall(
                                get_nurse_assignments(best_solution, FALSE),
                                get_all_patients_in_rooms(best_solution)[u[1]],
                                u[2])])

\* C19: _local_search starts with k = 0 on a copy of its argument.  Each
\* pass of its loop, taken while k < k_max, makes one call, of operator k on
\* the current solution; when the total cost of what the call returns is
\* strictly below the current cost, that solution and its cost become the
\* current ones and k becomes 0; otherwise the current solution and cost
\* stay and k becomes k + 1.  _local_search returns when k = k_max and only
\* then, and returns the current solution.  (So k counts the operators
\* 0..k-1 that have failed in a row, in order, on the current solution.)
C19_LocalSearchIsFirstImprovementDescent ==
    [][NotTheClock =>
        /\ pc = "ls_start" =>
                pc' = "ls" /\ k_ls' = 0 /\ s_current' = s_prime
        /\ (pc = "ls" /\ k_ls < k_max) =>
                /\ pc' = "ls"
                /\ call'.fn = neighborhoods[k_ls + 1]
                /\ call'.arg = s_current
                /\ LET cost_neighbor == evaluate_solution(call'.ret)
                   IN  IF cost_neighbor < cost_current
                       THEN /\ s_current' = call'.ret
                            /\ cost_current' = cost_neighbor
                            /\ k_ls' = 0
                       ELSE /\ s_current' = s_current
                            /\ cost_current' = cost_current
                            /\ k_ls' = k_ls + 1
        /\ (pc = "ls" /\ k_ls >= k_max) =>
                /\ k_ls = k_max
                /\ pc' = "compare"
                /\ s_current' = s_current
        /\ pc' = "compare" => (pc = "ls" /\ k_ls = k_max)]_vars

\* The third operator, reached after the first two failed, has returned a
\* strictly cheaper solution: it is the current one and k is 0 again.
C19_Witness ==
    /\ pc = "ls"
    /\ k_ls = 0
    /\ call.fn = neighborhoods[3]
    /\ s_current = call.ret
    /\ cost_current < evaluate_solution(call.arg)

\* C20: each pass of the outer loop of solve starts the inner loop with
\* k = 1.  The inner loop shakes and searches while k <= k_max, whether or
\* not the deadline has passed, and k changes only at the comparison that
\* follows: it becomes 1 when the candidate's cost is strictly below
\* best_cost, k + 1 otherwise.  The inner loop ends when k > k_max; the
\* deadline is tested there, at the head of the outer loop, and nowhere
\* else, and solve returns only from that test.
C20_InnerIndexAndDeadline ==
    [][NotTheClock =>
        /\ pc = "outer" =>
                IF expired THEN pc' = "done" ELSE pc' = "inner" /\ k' = 1
        /\ pc = "inner" =>
                /\ k' = k
                /\ pc' = IF k > k_max THEN "outer" ELSE "ls_start"
        /\ pc \in {"ls_start", "ls"} => k' = k
        /\ pc = "compare" =>
                /\ pc' = "inner"
                /\ k' = IF evaluate_solution(s_current) < best_cost THEN 1
                        ELSE k + 1
        /\ pc' = "done" => (pc = "outer" /\ expired)
        /\ (pc' = "outer" /\ pc # "start") => (pc = "inner" /\ k = k_max + 1)]_vars

\* The deadline has passed and the inner loop, which has improved the
\* incumbent and then rejected a candidate, is about to shake again.
C20_Witness ==
    /\ pc = "inner"
    /\ expired
    /\ 1 < k /\ k <= k_max
    /\ best_solution # s

\* The solutions that the operator of index i (0-based) of the operator
\* list can return when it is given a solution that holds val.
operator_results(i, val) ==
    {o.ret.val : o \in {r \in neighborhood_func(i, Obj(0, val)) : r.error = "none"}}

RECURSIVE applied_times(_, _, _)
\* The solutions that n applications in sequence of the operator of index i
\* can end with, the first being given a solution of S and each of the
\* others what the one before it returned.
applied_times(i, S, n) ==
    IF n = 0 THEN S
    ELSE applied_times(i, UNION {operator_results(i, val) : val \in S}, n - 1)

\* C21: for k in 1..k_max, what _shake(best_solution, k) returns is the
\* result of k applications in sequence of operator k-1 of the list, the
\* first given the contents of best_solution and each of the others the
\* result of the one before; every such result can be returned; and the
\* solution given to _shake is as it was (the work is done on a clone).
C21_ShakeAppliesOperatorKTimes ==
    /\ pc = "ls_start" =>
        /\ call.fn = "_shake"
        /\ k \in 1..k_max
        /\ call.arg = best_solution
        /\ call.arg_after = call.arg
        /\ call.ret = s_prime
        /\ s_prime \in applied_times(k - 1, {best_solution}, k)
    /\ (pc = "inner" /\ k <= k_max) =>
        {r.ret.val : r \in shake(Obj(0, best_solution), k)}
            = applied_times(k - 1, {best_solution}, k)

\* _shake has returned, for some k above 1, a solution that differs from
\* the one it was given and that no single application of operator k-1 to
\* it can return.
C21_Witness ==
    /\ pc = "ls_start"
    /\ call.fn = "_shake"
    /\ k > 1
    /\ s_prime # best_solution
    /\ s_prime \notin operator_results(k - 1, best_solution)

\* The mandatory patients with no placement in the solution.
unplaced_mandatory(solution) == mandatory_ids \ admitted_ids(solution.patients)

\* C22: when the builder has returned, every mandatory patient it left
\* without a placement, one whose release day is after its due day
\* included, is named in a warning; and the builder has gone on to the
\* patients after it (every patient it could place is placed: the run has
\* a solution and has not ended in an exception).
C22_UnscheduledMandatoryWarned ==
    (pc = "outer" /\ k = 0) =>
        /\ \A p_id \in unplaced_mandatory(s) : p_id \in Range(warnings)
        /\ \A w \in DOMAIN warnings : warnings[w] \in unplaced_mandatory(s)
        /\ raised = "none"

\* C23: _local_search returns on every solution it is given.  Each pass of
\* its loop either takes a neighbor of strictly lower total cost and sets k
\* to 0, or keeps the cost and advances k by one; k is set to 0 only with a
\* strict decrease of the cost; the cost is never below 0; k stays within
\* 0..k_max; and a local search that has begun comes to its return.
C23_LocalSearchTerminates ==
    /\ [][(NotTheClock /\ pc = "ls" /\ pc' = "ls") =>
            \/ k_ls' = 0 /\ cost_current' < cost_current
            \/ k_ls' = k_ls + 1 /\ cost_current' = cost_current]_vars
    /\ [](pc = "ls" => cost_current >= 0 /\ k_ls \in 0..k_max)
    /\ (pc = "ls_start") ~> (pc = "compare")

\* The loop of _local_search is at its exit (k = k_max) with a solution
\* strictly cheaper than the one it was given: k was set back to 0 on the
\* way and has reached k_max all the same.
C23_Witness ==
    /\ pc = "ls"
    /\ k_ls = k_max
    /\ cost_current < evaluate_solution(s_prime)
    /\ s_current # s_prime

\* From the solution `before` to the solution `after` no placed patient has
\* lost its placement, and the patients that have gained one are optional.
only_optionals_gained(before, after) ==
    /\ admitted_ids(before.patients) \subseteq admitted_ids(after.patients)
    /\ admitted_ids(after.patients) \ admitted_ids(before.patients)
            \subseteq optional_ids
    /\ Len(before.patients) <= Len(after.patients)

\* C24: what an operator or _shake returns places every patient that its
\* argument places, and the patients it places besides are optional; so does
\* the current solution of _local_search with respect to the solution it
\* was given; the placed patients of best_solution never shrink and grow by
\* optional patients only; and from the builder's return on, the H5 value
\* of best_solution is the H5 value of the initial solution.
C24_PlacedMandatoryFixed ==
    /\ [](call.fn # "none" => only_optionals_gained(call.arg, call.ret))
    /\ [](pc \in {"ls", "compare"} => only_optionals_gained(s_prime, s_current))
    /\ [][pc # "start" => only_optionals_gained(best_solution, best_solution')]_vars
    /\ [](pc # "start" =>
            h5_mandatory_unscheduled(best_solution) = h5_mandatory_unscheduled(s))

\* The incumbent places an optional patient that the initial solution does
\* not, and has its H5 value, which is not 0.
C24_Witness ==
    /\ pc = "inner"
    /\ admitted_ids(best_solution.patients) \ admitted_ids(s.patients) # {}
    /\ h5_mandatory_unscheduled(best_solution) = h5_mandatory_unscheduled(s)
    /\ h5_mandatory_unscheduled(s) > 0

\* The days on which the patient may be admitted: from the release day to
\* the due day when mandatory, from the release day to the horizon less the
\* length of stay when optional.
admission_days(patient) ==
    IF patient.mandatory
    THEN patient.surgery_release_day..patient.surgery_due_day
    ELSE patient.surgery_release_day..(days - patient.length_of_stay)

\* Every placement of the solution is of a patient of the instance, on one
\* of its admission days, which is a day of the window that
\* _neighborhood_change_patient_day builds for it.
placements_in_window(solution) ==
    \A i \in DOMAIN solution.patients :
        /\ solution.patients[i].id \in DOMAIN patient_dict
        /\ solution.patients[i].admission_day
                \in admission_days(patient_dict[solution.patients[i].id])
        /\ solution.patients[i].admission_day
                \in day_window(patient_dict[solution.patients[i].id])

\* C25: in every solution the run holds or produces, from the builder's on,
\* each placement's admission day is within [release day, due day] for a
\* mandatory patient and within [release day, horizon - length of stay] for
\* an optional one, and is in the window of the change-patient-day
\* operator; and no call of an operator ends in an exception.
C25_PlacementsStayInWindow ==
    /\ \A solution \in solutions_held : placements_in_window(solution)
    /\ pc # "crashed"

\* _neighborhood_change_patient_day, given a solution that places a
\* mandatory and an optional patient, has returned it with a placement on
\* another day.
C25_Witness ==
    /\ call.fn = "_neighborhood_change_patient_day"
    /\ pc # "crashed"
    /\ Len(call.arg.patients) = 2
    /\ Len(call.ret.patients) = 2
    /\ \E i \in DOMAIN call.arg.patients :
            call.ret.patients[i].admission_day # call.arg.patients[i].admission_day

====
